---- MODULE Spec2Model ----
(***************************************************************************)
(* compose-ref: the `up` reconciliation pass (doUp, createService) and the *)
(* `down` teardown (doDown, removeServices) of src/compose-ref.go, as a    *)
(* sequential program stepping from one runtime call to the next, against  *)
(* a container runtime whose calls may fail.                               *)
(***************************************************************************)
EXTENDS Naturals, Sequences, FiniteSets, TLC

(* ------------------------------------------------------------------ *)
(* Bounds of the model                                                 *)
(* ------------------------------------------------------------------ *)
\* container identifiers the runtime hands out in one behaviour
MaxIds == 3
\* changes made from outside between two invocations (file edits, exits, ...)
MaxEnvSteps == 1
\* services declared in one configuration file
MaxServices == 2

(* ------------------------------------------------------------------ *)
(* Data                                                                *)
(* ------------------------------------------------------------------ *)
ProjectName == "demo"
OtherProject == "other"

LabelProject == "io.compose-spec.project"
LabelService == "io.compose-spec.service"
LabelConfig == "io.compose-spec.config"

\* every label key of the model, in the order yaml.Marshal emits map keys
LabelKeyOrder == <<LabelConfig, LabelProject, LabelService, "tier">>

NoLabels == [k \in {} |-> ""]

\* a user label map that also defines the three keys the engine sets
UserLabels ==
    ("tier" :> "front") @@ (LabelProject :> "forged") @@
    (LabelService :> "forged") @@ (LabelConfig :> "forged")

ServiceNames == {"web", "db"}

ServiceConfig(name, image, shm, nets, labels) ==
    [Name |-> name, Image |-> image, ShmSize |-> shm, Networks |-> nets,
     Labels |-> labels]

\* the service definitions a configuration file may give a name
ServiceChoices(name) ==
    { ServiceConfig(name, "nginx:latest", "", <<>>, NoLabels),
      ServiceConfig(name, "nginx:1.21", "64m", <<"back", "front">>, UserLabels),
      ServiceConfig(name, "nginx:latest", "lots", <<>>, NoLabels) }

AllServices == UNION { ServiceChoices(n) : n \in ServiceNames }

\* the configurations load() can return: services with distinct names
Configs ==
    { c \in UNION { [1..n -> AllServices] : n \in 0..MaxServices } :
        \A i, j \in DOMAIN c : i # j => c[i].Name # c[j].Name }

\* a file ioutil.ReadFile or the loader rejects
Unreadable == [readable |-> FALSE, services |-> <<>>]

\* the contents of the configuration file
Files == { [readable |-> TRUE, services |-> c] : c \in Configs }
         \cup {Unreadable}

\* m[k] of a Go map: the zero value when the key is absent
Label(m, k) == IF k \in DOMAIN m THEN m[k] ELSE ""

RECURSIVE MarshalMap(_, _)
MarshalMap(m, keys) ==
    IF keys = <<>> THEN ""
    ELSE (IF Head(keys) \in DOMAIN m
          THEN "  " \o Head(keys) \o ": " \o m[Head(keys)] \o "\n"
          ELSE "") \o MarshalMap(m, Tail(keys))

RECURSIVE MarshalKeys(_)
MarshalKeys(names) ==
    IF names = <<>> THEN ""
    ELSE "  " \o Head(names) \o ": null\n" \o MarshalKeys(Tail(names))

MarshalWithoutShm(s) ==
    "image: " \o s.Image \o "\n"
    \o (IF DOMAIN s.Labels = {} THEN ""
        ELSE "labels:\n" \o MarshalMap(s.Labels, LabelKeyOrder))
    \o (IF s.Networks = <<>> THEN ""
        ELSE "networks:\n" \o MarshalKeys(s.Networks))

\* yaml.Marshal(service): the fields in declaration order, empty ones omitted,
\* the Name field not serialized
Marshal(s) ==
    "image: " \o s.Image \o "\n"
    \o (IF DOMAIN s.Labels = {} THEN ""
        ELSE "labels:\n" \o MarshalMap(s.Labels, LabelKeyOrder))
    \o (IF s.Networks = <<>> THEN ""
        ELSE "networks:\n" \o MarshalKeys(s.Networks))
    \o (IF s.ShmSize = "" THEN "" ELSE "shm_size: " \o s.ShmSize \o "\n")

\* units.RAMInBytes: whether the size string parses
RAMInBytesOk(size) == size \in {"64m"}

ServiceLabelsUserWins(project, s) ==
    s.Labels @@ (LabelProject :> project) @@ (LabelService :> s.Name)
             @@ (LabelConfig :> Marshal(s))

\* the label map createService puts on the container
ServiceLabels(project, s) ==
    (LabelConfig :> Marshal(s)) @@ (LabelService :> s.Name)
        @@ (LabelProject :> project) @@ s.Labels

\* the sequences listing every element of S once
Orderings(S) ==
    { q \in [1..Cardinality(S) -> S] :
        \A i, j \in 1..Cardinality(S) : i # j => q[i] # q[j] }

(* ------------------------------------------------------------------ *)
(* State                                                               *)
(* ------------------------------------------------------------------ *)
VARIABLES
    file,           \* what the configuration file holds
    envSteps,       \* outside changes made so far
    containers,     \* the runtime's containers: [id, labels, state]
    nextId,         \* the next container identifier of the runtime
    cmd,            \* the running command: "none", "up", "down"
    pc,             \* the position of the command in its code
    config,         \* the loaded configuration
    err,            \* the error the command returns ("" is nil)
    observedState,  \* doUp/removeServices: service name -> containers
    idx,            \* WithServices: index of the service being visited
    rmQueue,        \* RemoveContainers: containers still to remove
    ret,            \* where RemoveContainers returns to
    newId,          \* createService: create.ID
    connects,       \* ConnectContainerToNetworks: networks still to connect
    calls,          \* the runtime calls of this invocation, in order
    observed0,      \* the containers CollectContainers listed
    settled         \* the last command was a successful `up`, nothing changed since

runtimeVars == <<containers, nextId>>
envVars == <<file, envSteps>>
passVars == <<observedState, idx, rmQueue, ret, newId, connects>>
vars == <<file, envSteps, containers, nextId, cmd, pc,
          config, err, observedState, idx, rmQueue, ret, newId, connects,
          calls, observed0, settled>>

NoObserved == [k \in {} |-> <<>>]

\* the containers of the runtime that carry the project label
ProjectContainers(project) ==
    { c \in containers : Label(c.labels, LabelProject) = project }

Call(op, svc, id, ok) == [op |-> op, svc |-> svc, id |-> id, ok |-> ok]

Init ==
    /\ file \in Files
    /\ envSteps = 0
    /\ containers = {}
    /\ nextId = 1
    /\ cmd = "none"
    /\ pc = "idle"
    /\ config = <<>>
    /\ err = ""
    /\ observedState = NoObserved
    /\ idx = 1
    /\ rmQueue = <<>>
    /\ ret = ""
    /\ newId = 0
    /\ connects = <<>>
    /\ calls = <<>>
    /\ observed0 = {}
    /\ settled = FALSE

(* ------------------------------------------------------------------ *)
(* The command line: main                                              *)
(* ------------------------------------------------------------------ *)
Log(op, svc, id, ok) == calls' = Append(calls, Call(op, svc, id, ok))

\* the command returns e to app.Run
Return(e) == pc' = "done" /\ err' = e

\* the start of both commands' Action: load(file), then getProject, whose
\* filepath.Abs may fail; on success the command goes on at `entry`
Main(command, entry) ==
    /\ pc = "idle"
    /\ cmd' = command
    /\ IF ~file.readable
       THEN /\ calls' = <<Call("load", "", 0, FALSE)>>
            /\ Return("load")
            /\ UNCHANGED config
       ELSE /\ config' = file.services
            /\ \E ok \in BOOLEAN :
                 /\ calls' = <<Call("load", "", 0, TRUE),
                               Call("getProject", "", 0, ok)>>
                 /\ IF ok THEN pc' = entry /\ UNCHANGED err
                    ELSE Return("getProject")
    /\ UNCHANGED <<envVars, runtimeVars, passVars, observed0, settled>>

StartUp == Main("up", "doUp")

StartDown == Main("down", "doDown")

\* the command is over: main returns (or log.Fatal), the process ends
Exit ==
    /\ pc = "done"
    /\ pc' = "idle"
    /\ cmd' = "none"
    /\ settled' = (cmd = "up" /\ err = "")
    /\ config' = <<>>
    /\ err' = ""
    /\ observedState' = NoObserved
    /\ idx' = 1
    /\ rmQueue' = <<>>
    /\ ret' = ""
    /\ newId' = 0
    /\ connects' = <<>>
    /\ calls' = <<>>
    /\ observed0' = {}
    /\ UNCHANGED <<envVars, runtimeVars>>

(* ------------------------------------------------------------------ *)
(* internal: the runtime client helpers                                *)
(* ------------------------------------------------------------------ *)
\* what CollectContainers can return: the project's containers grouped by
\* their service label, each group in the order the runtime lists it
Observations(project) ==
    LET pcs == ProjectContainers(project)
        keys == { Label(c.labels, LabelService) : c \in pcs }
        group(k) == { c \in pcs : Label(c.labels, LabelService) = k }
    IN { f \in [keys -> UNION { Orderings(group(k)) : k \in keys }] :
           \A k \in keys : f[k] \in Orderings(group(k)) }

\* the networks ConnectContainerToNetworks connects after creation
AdditionalNetworks(s) ==
    IF Len(s.Networks) <= 1 THEN <<>> ELSE Tail(s.Networks)

WithoutKey(m, k) == [x \in DOMAIN m \ {k} |-> m[x]]

\* one iteration of RemoveContainers: remove the next container of the list,
\* return the error of a failed removal, return nil after the last one
RemoveContainers ==
    /\ pc = "remove"
    /\ rmQueue # <<>>
    /\ LET c == Head(rmQueue) IN
       \E ok \in BOOLEAN :
         /\ Log("remove", Label(c.labels, LabelService), c.id, ok)
         /\ IF ok
            THEN /\ containers' = { x \in containers : x.id # c.id }
                 /\ rmQueue' = Tail(rmQueue)
                 /\ pc' = (IF Tail(rmQueue) = <<>> THEN ret ELSE "remove")
                 /\ UNCHANGED err
            ELSE /\ Return("remove")
                 /\ UNCHANGED <<containers, rmQueue>>
    /\ UNCHANGED <<envVars, nextId, cmd, config,
                   observedState, idx, ret, newId, connects, observed0,
                   settled>>

(* ------------------------------------------------------------------ *)
(* doUp                                                                *)
(* ------------------------------------------------------------------ *)
ResolveStepsWithoutSecrets ==
    <<"client", "prjDir", "networks", "volumes", "configs">>

\* the calls of doUp before the containers are listed: getClient,
\* filepath.Abs, GetNetworksFromConfig, GetVolumesFromConfig,
\* GetConfigsFromConfig, GetSecretsFromConfig
ResolveSteps ==
    <<"client", "prjDir", "networks", "volumes", "configs", "secrets">>

\* the log of these calls when the first n succeed
ResolveCalls(n) ==
    [i \in 1..(IF n < Len(ResolveSteps) THEN n + 1 ELSE n) |->
        Call(ResolveSteps[i], "", 0, i <= n)]

\* doUp up to CollectContainers: the first failing call returns its error
UpResolve ==
    /\ pc = "doUp"
    /\ \E n \in 0..Len(ResolveSteps) :
         /\ calls' = calls \o ResolveCalls(n)
         /\ IF n = Len(ResolveSteps)
            THEN pc' = "collect" /\ UNCHANGED err
            ELSE Return(ResolveSteps[n + 1])
    /\ UNCHANGED <<envVars, runtimeVars, cmd, config, passVars, observed0,
                   settled>>

\* observedState, err := internal.CollectContainers(cli, project)
Collect(at, next) ==
    /\ pc = at
    /\ \E ok \in BOOLEAN :
         /\ Log("list", "", 0, ok)
         /\ IF ok
            THEN /\ \E obs \in Observations(ProjectName) : observedState' = obs
                 /\ observed0' = ProjectContainers(ProjectName)
                 /\ pc' = next
                 /\ UNCHANGED err
            ELSE /\ Return("list")
                 /\ UNCHANGED <<observedState, observed0>>
    /\ UNCHANGED <<envVars, runtimeVars, cmd, config, idx, rmQueue, ret,
                   newId, connects, settled>>

UpCollect == Collect("collect", "services")

DivergedIgnoringUnlabelled(containers_, expected) ==
    \E i \in DOMAIN containers_ :
        /\ Label(containers_[i].labels, LabelConfig) # ""
        /\ Label(containers_[i].labels, LabelConfig) # expected

DivergedInverted(containers_, expected) ==
    \E i \in DOMAIN containers_ :
        Label(containers_[i].labels, LabelConfig) = expected

DivergedWhenAll(containers_, expected) ==
    \A i \in DOMAIN containers_ :
        Label(containers_[i].labels, LabelConfig) # expected

\* the loop setting `diverged`: some container's config label is not the
\* expected one
Diverged(containers_, expected) ==
    \E i \in DOMAIN containers_ :
        Label(containers_[i].labels, LabelConfig) # expected

\* observedState[service.Name]
ObservedOf(name) ==
    IF name \in DOMAIN observedState THEN observedState[name] ELSE <<>>

RemovalsOnlyDiverged(cs, expected) ==
    SelectSeq(cs, LAMBDA c : Label(c.labels, LabelConfig) # expected)

\* the containers doUp hands to RemoveContainers for a diverged service
Removals(cs, expected) == cs

NoneObservedNever(cs) == Len(cs) < 0

\* len(containers) == 0
NoneObserved(cs) == Len(cs) = 0

VisitedKept(m, name) == m

\* delete(observedState, service.Name)
Visited(m, name) == WithoutKey(m, name)

\* the callback of config.WithServices, up to its first runtime call
UpService ==
    /\ pc = "services"
    /\ idx <= Len(config)
    /\ LET s == config[idx]
           cs == ObservedOf(s.Name)
           expected == Marshal(s)
       IN /\ observedState' = Visited(observedState, s.Name)
          /\ IF NoneObserved(cs)
             THEN /\ pc' = "createService"
                  /\ UNCHANGED <<idx, rmQueue, ret>>
             ELSE IF ~Diverged(cs, expected)
             THEN /\ idx' = idx + 1
                  /\ UNCHANGED <<pc, rmQueue, ret>>
             ELSE /\ rmQueue' = Removals(cs, expected)
                  /\ ret' = "createService"
                  /\ pc' = "remove"
                  /\ UNCHANGED idx
    /\ UNCHANGED <<envVars, runtimeVars, cmd, config, err, newId, connects,
                   calls, observed0, settled>>

\* WithServices has visited every service and returns nil
UpServicesDone ==
    /\ pc = "services"
    /\ idx > Len(config)
    /\ pc' = "orphans"
    /\ UNCHANGED <<envVars, runtimeVars, cmd, config, err, passVars, calls,
                   observed0, settled>>

\* the next entry of a range over observedState (a Go map: any order, each
\* entry once; a visited entry is dropped from the working map)
NextEntry(at) ==
    /\ pc = at
    /\ DOMAIN observedState # {}
    /\ \E k \in DOMAIN observedState :
         /\ rmQueue' = observedState[k]
         /\ observedState' = WithoutKey(observedState, k)
    /\ ret' = at
    /\ pc' = "remove"
    /\ UNCHANGED <<envVars, runtimeVars, cmd, config, err, idx, newId,
                   connects, calls, observed0, settled>>

UpOrphanBeforeServices == NextEntry("services")

\* for _, orphaned := range observedState
UpOrphan == NextEntry("orphans")

UpDoneSkippingOrphans ==
    /\ pc = "orphans"
    /\ Return("")
    /\ UNCHANGED <<envVars, runtimeVars, cmd, config, passVars, calls,
                   observed0, settled>>

\* return nil at the end of doUp
UpDone ==
    /\ pc = "orphans"
    /\ DOMAIN observedState = {}
    /\ Return("")
    /\ UNCHANGED <<envVars, runtimeVars, cmd, config, passVars, calls,
                   observed0, settled>>

(* ------------------------------------------------------------------ *)
(* createService                                                       *)
(* ------------------------------------------------------------------ *)
\* createService before ContainerCreate: the shm size is parsed, the labels
\* and the mounts are built
CreateServicePrepare ==
    /\ pc = "createService"
    /\ LET s == config[idx] IN
       IF s.ShmSize # "" /\ ~RAMInBytesOk(s.ShmSize)
       THEN /\ Log("shm", s.Name, 0, FALSE)
            /\ Return("shm")
       ELSE \E ok \in BOOLEAN :
              /\ Log("mounts", s.Name, 0, ok)
              /\ IF ok THEN pc' = "create" /\ UNCHANGED err
                 ELSE Return("mounts")
    /\ UNCHANGED <<envVars, runtimeVars, cmd, config, passVars, observed0,
                   settled>>

\* cli.ContainerCreate
ContainerCreate ==
    /\ pc = "create"
    /\ LET s == config[idx] IN
       \E ok \in BOOLEAN :
         /\ ok => nextId <= MaxIds
         /\ IF ok
            THEN /\ containers' = containers \cup
                        {[id |-> nextId,
                          labels |-> ServiceLabels(ProjectName, s),
                          state |-> "created"]}
                 /\ Log("create", s.Name, nextId, TRUE)
                 /\ nextId' = nextId + 1
                 /\ newId' = nextId
                 /\ connects' = AdditionalNetworks(s)
                 /\ pc' = (IF AdditionalNetworks(s) = <<>> THEN "start"
                           ELSE "connect")
                 /\ UNCHANGED err
            ELSE /\ Log("create", s.Name, 0, FALSE)
                 /\ Return("create")
                 /\ UNCHANGED <<containers, nextId, newId, connects>>
    /\ UNCHANGED <<envVars, cmd, config, observedState,
                   idx, rmQueue, ret, observed0, settled>>

ConnectNetworkIgnoringError ==
    /\ pc = "connect"
    /\ connects # <<>>
    /\ \E ok \in BOOLEAN : Log("connect", config[idx].Name, newId, ok)
    /\ connects' = Tail(connects)
    /\ pc' = (IF Tail(connects) = <<>> THEN "start" ELSE "connect")
    /\ UNCHANGED <<envVars, runtimeVars, cmd, config, err, observedState, idx,
                   rmQueue, ret, newId, observed0, settled>>

\* one iteration of ConnectContainerToNetworks
ConnectNetwork ==
    /\ pc = "connect"
    /\ connects # <<>>
    /\ \E ok \in BOOLEAN :
         /\ Log("connect", config[idx].Name, newId, ok)
         /\ IF ok
            THEN /\ connects' = Tail(connects)
                 /\ pc' = (IF Tail(connects) = <<>> THEN "start" ELSE "connect")
                 /\ UNCHANGED err
            ELSE /\ Return("connect")
                 /\ UNCHANGED connects
    /\ UNCHANGED <<envVars, runtimeVars, cmd, config, observedState, idx,
                   rmQueue, ret, newId, observed0, settled>>

ContainerStartIgnoringError ==
    /\ pc = "start"
    /\ \E ok \in BOOLEAN :
         /\ Log("start", config[idx].Name, newId, ok)
         /\ containers' =
                { IF c.id = newId /\ ok THEN [c EXCEPT !.state = "running"]
                  ELSE c : c \in containers }
    /\ idx' = idx + 1
    /\ pc' = "services"
    /\ UNCHANGED <<envVars, nextId, cmd, config, err, observedState, rmQueue,
                   ret, newId, connects, observed0, settled>>

\* cli.ContainerStart, then createService returns nil and WithServices goes
\* on to the next service
ContainerStart ==
    /\ pc = "start"
    /\ \E ok \in BOOLEAN :
         /\ Log("start", config[idx].Name, newId, ok)
         /\ IF ok
            THEN /\ containers' =
                        { IF c.id = newId THEN [c EXCEPT !.state = "running"]
                          ELSE c : c \in containers }
                 /\ idx' = idx + 1
                 /\ pc' = "services"
                 /\ UNCHANGED err
            ELSE /\ Return("start")
                 /\ UNCHANGED <<containers, idx>>
    /\ UNCHANGED <<envVars, nextId, cmd, config,
                   observedState, rmQueue, ret, newId, connects, observed0,
                   settled>>

(* ------------------------------------------------------------------ *)
(* doDown, removeServices                                              *)
(* ------------------------------------------------------------------ *)
\* cli, err := getClient(); if err != nil { return nil }
DownGetClient ==
    /\ pc = "doDown"
    /\ \E ok \in BOOLEAN :
         /\ Log("client", "", 0, ok)
         /\ IF ok THEN pc' = "downCollect" /\ UNCHANGED err
            ELSE Return("")
    /\ UNCHANGED <<envVars, runtimeVars, cmd, config, passVars, observed0,
                   settled>>

DownCollect == Collect("downCollect", "removeServices")

\* for _, replicaList := range containers
DownRemoveService == NextEntry("removeServices")

DownServicesRemovedEarly ==
    /\ pc = "removeServices"
    /\ pc' = "removeVolumes"
    /\ UNCHANGED <<envVars, runtimeVars, cmd, config, err, passVars, calls,
                   observed0, settled>>

\* removeServices returns nil
DownServicesRemoved ==
    /\ pc = "removeServices"
    /\ DOMAIN observedState = {}
    /\ pc' = "removeVolumes"
    /\ UNCHANGED <<envVars, runtimeVars, cmd, config, err, passVars, calls,
                   observed0, settled>>

\* internal.RemoveVolumes
RemoveVolumes ==
    /\ pc = "removeVolumes"
    /\ \E ok \in BOOLEAN :
         /\ Log("removeVolumes", "", 0, ok)
         /\ IF ok
            THEN pc' = "removeNetworks" /\ UNCHANGED err
            ELSE Return("removeVolumes")
    /\ UNCHANGED <<envVars, runtimeVars, cmd, config, passVars, observed0,
                   settled>>

\* internal.RemoveNetworks
RemoveNetworks ==
    /\ pc = "removeNetworks"
    /\ \E ok \in BOOLEAN :
         /\ Log("removeNetworks", "", 0, ok)
         /\ Return(IF ok THEN "" ELSE "removeNetworks")
    /\ UNCHANGED <<envVars, runtimeVars, cmd, config, passVars, observed0,
                   settled>>

(* ------------------------------------------------------------------ *)
(* The world between two invocations                                   *)
(* ------------------------------------------------------------------ *)
Outside ==
    /\ pc = "idle"
    /\ envSteps < MaxEnvSteps
    /\ envSteps' = envSteps + 1
    /\ UNCHANGED <<cmd, pc, config, err, passVars, calls,
                   observed0>>

\* the user edits the configuration file
EditFile ==
    /\ Outside
    /\ \E f \in Files \ {file} : file' = f
    /\ settled' = FALSE
    /\ UNCHANGED <<containers, nextId>>

\* the process of a running container ends
ContainerExits ==
    /\ Outside
    /\ \E c \in containers :
         /\ c.state = "running"
         /\ containers' = (containers \ {c}) \cup {[c EXCEPT !.state = "exited"]}
    /\ UNCHANGED <<file, nextId, settled>>

\* the label maps of containers started by hand: a copy of an existing
\* container's labels (manual scaling), a container of the project with no
\* config label, one with no service label either, a container of another
\* project
ExternalLabels ==
    { c.labels : c \in containers }
    \cup { (LabelProject :> ProjectName) @@ (LabelService :> n) :
             n \in ServiceNames }
    \cup { (LabelProject :> ProjectName) }
    \cup { (LabelProject :> OtherProject) @@ (LabelService :> "web") }

ExternalRun ==
    /\ Outside
    /\ nextId <= MaxIds
    /\ \E l \in ExternalLabels :
         containers' = containers \cup
             {[id |-> nextId, labels |-> l, state |-> "running"]}
    /\ nextId' = nextId + 1
    /\ settled' = FALSE
    /\ UNCHANGED file

\* somebody removes a container by hand
ExternalRemove ==
    /\ Outside
    /\ \E c \in containers : containers' = containers \ {c}
    /\ settled' = FALSE
    /\ UNCHANGED <<file, nextId>>

(* ------------------------------------------------------------------ *)
(* Specification                                                       *)
(* ------------------------------------------------------------------ *)
Next ==
    \/ StartUp \/ StartDown \/ Exit
    \/ UpResolve \/ UpCollect \/ UpService \/ UpServicesDone \/ UpOrphan
    \/ UpDone \/ RemoveContainers
    \/ CreateServicePrepare \/ ContainerCreate \/ ConnectNetwork
    \/ ContainerStart
    \/ DownGetClient \/ DownCollect \/ DownRemoveService
    \/ DownServicesRemoved \/ RemoveVolumes \/ RemoveNetworks
    \/ EditFile \/ ContainerExits \/ ExternalRun \/ ExternalRemove

Spec == Init /\ [][Next]_vars

(* ------------------------------------------------------------------ *)
(* What the claims speak of                                            *)
(* ------------------------------------------------------------------ *)
Indexes == DOMAIN calls

\* the containers were listed in this invocation
Listed == \E i \in Indexes : calls[i].op = "list" /\ calls[i].ok

UpOk == cmd = "up" /\ pc = "done" /\ err = ""

DownOk == cmd = "down" /\ pc = "done" /\ err = ""

ServiceOf(c) == Label(c.labels, LabelService)

DesiredNames == { config[i].Name : i \in DOMAIN config }

\* the containers of service `name` listed at the start of the invocation
ObservedFor(name) == { c \in observed0 : ServiceOf(c) = name }

\* the calls of kind op issued for service `name`
CallsFor(op, name) ==
    { i \in Indexes : calls[i].op = op /\ calls[i].svc = name }

\* container c is gone from the runtime
Gone(c) == \A x \in containers : x.id # c.id

\* a successful remove call for container c, issued before call j
RemovedBefore(c, j) ==
    \E i \in Indexes :
        /\ i < j
        /\ calls[i].op = "remove"
        /\ calls[i].id = c.id
        /\ calls[i].ok

\* the callback of WithServices has returned nil for service i
Processed(i) == cmd = "up" /\ Listed /\ i \in DOMAIN config /\ i < idx

MatchesAll(i) ==
    /\ ObservedFor(config[i].Name) # {}
    /\ \A c \in ObservedFor(config[i].Name) :
           Label(c.labels, LabelConfig) = Marshal(config[i])

SomeDiverged(i) ==
    \E c \in ObservedFor(config[i].Name) :
        Label(c.labels, LabelConfig) # Marshal(config[i])

(* ------------------------------------------------------------------ *)
(* C1..C10                                                             *)
(* ------------------------------------------------------------------ *)

\* C1: idempotence. An `up` started after a successful `up`, with the same
\* configuration file and no container added or removed from outside since,
\* issues no container create call and no container remove call.
C1_Idempotence ==
    (cmd = "up" /\ settled) =>
        \A i \in Indexes : calls[i].op \notin {"create", "remove"}

\* a second `up` has completed against containers the first one left behind
C1_Witness ==
    /\ UpOk
    /\ settled
    /\ observed0 # {}
    /\ \E i \in DOMAIN config : ObservedFor(config[i].Name) # {}

\* C2: replace-on-divergence. When `up` returns nil, every container observed
\* for a desired service with a config label other than the service's
\* fingerprint has been removed, and exactly one container was created for
\* the service, which is in the runtime with the fingerprint as config label.
C2_ReplaceOnDivergence ==
    UpOk =>
        \A i \in DOMAIN config :
          \A c \in ObservedFor(config[i].Name) :
            Label(c.labels, LabelConfig) # Marshal(config[i]) =>
              /\ Gone(c)
              /\ RemovedBefore(c, Len(calls) + 1)
              /\ Cardinality(CallsFor("create", config[i].Name)) = 1
              /\ \A j \in CallsFor("create", config[i].Name) :
                   \E x \in containers :
                     /\ x.id = calls[j].id
                     /\ ServiceOf(x) = config[i].Name
                     /\ Label(x.labels, LabelConfig) = Marshal(config[i])

\* a successful `up` found a container of a desired service with another
\* fingerprint, which did carry a config label
C2_Witness ==
    /\ UpOk
    /\ \E i \in DOMAIN config :
         \E c \in ObservedFor(config[i].Name) :
           /\ Label(c.labels, LabelConfig) # Marshal(config[i])
           /\ Label(c.labels, LabelConfig) # ""

\* C3: orphan removal. When `up` returns nil, every observed container of a
\* service name outside the desired set has been removed, and no create
\* call was issued for that name.
C3_OrphanRemoval ==
    UpOk =>
        \A c \in observed0 :
          ServiceOf(c) \notin DesiredNames =>
            /\ Gone(c)
            /\ RemovedBefore(c, Len(calls) + 1)
            /\ CallsFor("create", ServiceOf(c)) = {}

\* a successful `up` found containers of a service the file no longer has
C3_Witness ==
    /\ UpOk
    /\ \E c \in observed0 : ServiceOf(c) \notin DesiredNames
    /\ config # <<>>

\* C4: whole-service replacement. For a desired service observed with two or
\* more containers of which at least one has another fingerprint: a create
\* call for the service is issued only after every observed container of the
\* service, the matching ones included, was removed; at most one create call
\* is issued; and once the service is processed exactly one was issued.
C4_WholeServiceReplacement ==
    (cmd = "up" /\ Listed) =>
        \A i \in DOMAIN config :
          (Cardinality(ObservedFor(config[i].Name)) >= 2 /\ SomeDiverged(i)) =>
            /\ \A j \in CallsFor("create", config[i].Name) :
                 \A c \in ObservedFor(config[i].Name) : RemovedBefore(c, j)
            /\ Cardinality(CallsFor("create", config[i].Name)) <= 1
            /\ Processed(i) =>
                 /\ \A c \in ObservedFor(config[i].Name) : Gone(c)
                 /\ \E j \in CallsFor("create", config[i].Name) : calls[j].ok

\* a processed service had a matching and a diverged container
C4_Witness ==
    \E i \in DOMAIN config :
        /\ Processed(i)
        /\ SomeDiverged(i)
        /\ \E c \in ObservedFor(config[i].Name) :
             Label(c.labels, LabelConfig) = Marshal(config[i])

\* C5: keep on match. For a desired service all of whose observed containers
\* carry the expected fingerprint, `up` issues no create, remove, connect or
\* start call, and the containers stay as they were, running or exited.
C5_KeepOnMatch ==
    (cmd = "up" /\ Listed) =>
        \A i \in DOMAIN config :
          MatchesAll(i) =>
            /\ \A j \in Indexes :
                 calls[j].svc = config[i].Name =>
                   calls[j].op \notin {"create", "remove", "connect", "start"}
            /\ ObservedFor(config[i].Name) \subseteq containers

\* a successful `up` kept an exited container whose fingerprint matched
C5_Witness ==
    /\ UpOk
    /\ \E i \in DOMAIN config :
         /\ MatchesAll(i)
         /\ \E c \in ObservedFor(config[i].Name) : c.state = "exited"

\* C6: create when absent. For a desired service with no observed container,
\* `up` issues no remove call and at most one create call; once the service
\* is processed, exactly one create call was issued for it, and it succeeded.
C6_CreateWhenAbsent ==
    (cmd = "up" /\ Listed) =>
        \A i \in DOMAIN config :
          ObservedFor(config[i].Name) = {} =>
            /\ CallsFor("remove", config[i].Name) = {}
            /\ Cardinality(CallsFor("create", config[i].Name)) <= 1
            /\ Processed(i) =>
                 \E j \in CallsFor("create", config[i].Name) : calls[j].ok

\* a successful `up` had a desired service with no container
C6_Witness ==
    /\ UpOk
    /\ \E i \in DOMAIN config : ObservedFor(config[i].Name) = {}

\* C7: convergence. When `up` returns nil, every desired service has a
\* container in the project, and every container of the project carries the
\* name of a desired service and that service's fingerprint.
C7_Convergence ==
    UpOk =>
        /\ \A i \in DOMAIN config :
             \E c \in ProjectContainers(ProjectName) :
               ServiceOf(c) = config[i].Name
        /\ \A c \in ProjectContainers(ProjectName) :
             \E i \in DOMAIN config :
               /\ ServiceOf(c) = config[i].Name
               /\ Label(c.labels, LabelConfig) = Marshal(config[i])

\* a successful `up` had to remove and to create
C7_Witness ==
    /\ UpOk
    /\ \E i, j \in Indexes : calls[i].op = "remove" /\ calls[j].op = "create"
    /\ Len(config) = 2

\* C8: teardown order. In `down`, a volume release is issued only after every
\* listed container was removed with success and no removal failed; a network
\* release only after a successful volume release.
C8_TeardownOrder ==
    cmd = "down" =>
        /\ \A j \in Indexes :
             calls[j].op = "removeVolumes" =>
               /\ \A c \in observed0 : RemovedBefore(c, j)
               /\ \A i \in Indexes : i < j => calls[i].ok
               /\ Listed
        /\ \A k \in Indexes :
             calls[k].op = "removeNetworks" =>
               \E j \in Indexes :
                 j < k /\ calls[j].op = "removeVolumes" /\ calls[j].ok

\* a `down` that removed containers of two services released the networks
C8_Witness ==
    /\ DownOk
    /\ Cardinality({ ServiceOf(c) : c \in observed0 }) >= 2
    /\ \E k \in Indexes : calls[k].op = "removeNetworks" /\ calls[k].ok

\* C9 as claimed: a `down` whose configuration file cannot be loaded still
\* tears the project down: unless a runtime call fails, it ends with no
\* container of the project left and the volumes and networks released.
C9_DownWithoutLoad ==
    (cmd = "down" /\ pc = "done" /\ ~file.readable) =>
        \/ \E i \in Indexes : calls[i].op # "load" /\ ~calls[i].ok
        \/ /\ ProjectContainers(ProjectName) = {}
           /\ \E i \in Indexes : calls[i].op = "removeVolumes" /\ calls[i].ok
           /\ \E i \in Indexes : calls[i].op = "removeNetworks" /\ calls[i].ok

\* C10: fail-fast, no rollback. In `up`, a failed call is the last call of
\* the pass, the pass is over and returns that call's error; every container
\* removed in the pass stays removed and every container created stays.
C10_FailFastNoRollback ==
    cmd = "up" =>
        /\ \A i \in Indexes :
             ~calls[i].ok =>
               /\ i = Len(calls)
               /\ pc = "done"
               /\ err = calls[i].op
        /\ \A i \in Indexes :
             (calls[i].op = "remove" /\ calls[i].ok) =>
               \A x \in containers : x.id # calls[i].id
        /\ \A i \in Indexes :
             (calls[i].op = "create" /\ calls[i].ok) =>
               \E x \in containers : x.id = calls[i].id

\* the creation for a diverged service failed after its containers were
\* removed: the service is left with no container
C10_Witness ==
    /\ cmd = "up"
    /\ pc = "done"
    /\ err = "create"
    /\ \E i \in DOMAIN config :
         /\ ObservedFor(config[i].Name) # {}
         /\ \A c \in ProjectContainers(ProjectName) :
              ServiceOf(c) # config[i].Name

(* ------------------------------------------------------------------ *)
(* C11..C20                                                            *)
(* ------------------------------------------------------------------ *)

\* C11 as claimed: every failure is surfaced. A command that ends after one
\* of its steps failed (obtaining the runtime client included) returns an
\* error.
C11_FailureSurfaced ==
    pc = "done" => ((\E i \in Indexes : ~calls[i].ok) => err # "")

\* C12 as claimed: a configuration error aborts before any runtime mutation.
\* An `up` whose configuration has a service with an unparseable shm size
\* returns an error, and no container was removed or created by that run.
C12_ConfigErrorBeforeMutation ==
    (cmd = "up" /\ pc = "done"
       /\ \E i \in DOMAIN config :
            config[i].ShmSize # "" /\ ~RAMInBytesOk(config[i].ShmSize)) =>
        /\ err # ""
        /\ \A j \in Indexes :
             calls[j].op \in {"remove", "create"} => ~calls[j].ok

SystemKeys == {LabelProject, LabelService, LabelConfig}

\* the declared service of that name
ServiceNamed(name) == CHOOSE s \in { config[i] : i \in DOMAIN config } :
                          s.Name = name

\* C13: load-bearing labels. Every container created in an `up` pass carries
\* the project label with the project name, the service label with the
\* service's name and the config label with its fingerprint, whatever the
\* service's own labels say for these keys; every other label of the service
\* is on the container unchanged, and nothing else is.
C13_LoadBearingLabels ==
    cmd = "up" =>
        \A j \in Indexes :
          (calls[j].op = "create" /\ calls[j].ok) =>
            \E x \in containers :
              LET s == ServiceNamed(calls[j].svc) IN
              /\ x.id = calls[j].id
              /\ DOMAIN x.labels = DOMAIN s.Labels \cup SystemKeys
              /\ x.labels[LabelProject] = ProjectName
              /\ x.labels[LabelService] = s.Name
              /\ x.labels[LabelConfig] = Marshal(s)
              /\ \A k \in DOMAIN s.Labels \ SystemKeys :
                   x.labels[k] = s.Labels[k]

\* a container was created for a service whose labels define the three keys
\* with other values, and a label of its own
C13_Witness ==
    /\ cmd = "up"
    /\ \E j \in Indexes :
         /\ calls[j].op = "create"
         /\ calls[j].ok
         /\ SystemKeys \subseteq DOMAIN ServiceNamed(calls[j].svc).Labels
         /\ ServiceNamed(calls[j].svc).Labels[LabelConfig] = "forged"
         /\ \E x \in containers :
              x.id = calls[j].id /\ Label(x.labels, "tier") = "front"

(* ------------------------------------------------------------------ *)
(* The fingerprint over every combination of field values: the same    *)
(* program, run with `up` alone, on a file of one service whose fields *)
(* range over a product, edited once between two invocations.          *)
(* ------------------------------------------------------------------ *)
Images == {"nginx:latest", "nginx:1.21"}
ShmSizes == {"", "64m", "lots"}
NetworkSets == {<<>>, <<"back">>, <<"back", "front">>}
LabelMaps == {NoLabels, UserLabels, ("tier" :> "front")}

FieldProduct ==
    { ServiceConfig(n, im, sh, ne, la) :
        n \in ServiceNames, im \in Images, sh \in ShmSizes,
        ne \in NetworkSets, la \in LabelMaps }

\* the files of one service
FilesFp == { [readable |-> TRUE, services |-> <<a>>] : a \in FieldProduct }

InitFp ==
    /\ file \in FilesFp
    /\ envSteps = 0
    /\ containers = {}
    /\ nextId = 1
    /\ cmd = "none"
    /\ pc = "idle"
    /\ config = <<>>
    /\ err = ""
    /\ observedState = NoObserved
    /\ idx = 1
    /\ rmQueue = <<>>
    /\ ret = ""
    /\ newId = 0
    /\ connects = <<>>
    /\ calls = <<>>
    /\ observed0 = {}
    /\ settled = FALSE

\* the user replaces the service definition of the file, once
EditFileFp ==
    /\ Outside
    /\ envSteps = 0
    /\ \E f \in FilesFp \ {file} : file' = f
    /\ settled' = FALSE
    /\ UNCHANGED <<containers, nextId>>

NextFp ==
    \/ StartUp \/ Exit
    \/ UpResolve \/ UpCollect \/ UpService \/ UpServicesDone \/ UpOrphan
    \/ UpDone \/ RemoveContainers
    \/ CreateServicePrepare \/ ContainerCreate \/ ConnectNetwork
    \/ ContainerStart
    \/ EditFileFp

SpecFp == InitFp /\ [][NextFp]_vars

\* the label map createService gives a container of each definition
LabelsOf == [a \in FieldProduct |-> ServiceLabels(ProjectName, a)]

\* the definitions container c can have been created from
MadeFrom(c) == { a \in FieldProduct : LabelsOf[a] = c.labels }

SameButName(a, b) ==
    /\ a.Image = b.Image
    /\ a.ShmSize = b.ShmSize
    /\ a.Networks = b.Networks
    /\ a.Labels = b.Labels

\* C14 as claimed: two service definitions that differ in any field have
\* different fingerprints (the definition a listed container was created
\* from, against a definition of the file loaded by this `up`).
C14_NoFalseNegative ==
    (cmd = "up" /\ Listed) =>
        \A c \in observed0 : \A a \in MadeFrom(c) : \A i \in DOMAIN config :
            a # config[i] => Marshal(a) # Marshal(config[i])

\* C14 as amended: two service definitions that differ in a field other than
\* the name have different fingerprints, and a container created from one
\* definition is never kept as up to date against a different one: once its
\* service is processed it is removed, and no container of the service is
\* removed or created when all of them were created from the definition of
\* the file (definitions that differ in the name alone share a fingerprint,
\* but a container is only compared with the definition of its own service
\* name).
C14_ChangeDetection ==
    (cmd = "up" /\ Listed) =>
        \A c \in observed0 : \A a \in MadeFrom(c) : \A i \in DOMAIN config :
            /\ ~SameButName(a, config[i]) =>
                 Marshal(a) # Marshal(config[i])
            /\ (a # config[i] /\ a.Name = config[i].Name /\ Processed(i)) =>
                 /\ Gone(c)
                 /\ \E j \in Indexes :
                      calls[j].op = "remove" /\ calls[j].id = c.id /\ calls[j].ok
            /\ (a = config[i] /\ MatchesAll(i) /\ Processed(i)) =>
                 /\ \A j \in Indexes : calls[j].op = "remove" => calls[j].id # c.id
                 /\ CallsFor("create", a.Name) = {}

\* a listed container was created from a definition of the same name that
\* differs from the one of the file in the shm size alone; its service is
\* processed and it was replaced
C14_Witness ==
    /\ cmd = "up" /\ Listed
    /\ \E c \in observed0 : \E a \in MadeFrom(c) : \E i \in DOMAIN config :
         /\ Processed(i)
         /\ a.Name = config[i].Name
         /\ a.ShmSize # config[i].ShmSize
         /\ a.Image = config[i].Image
         /\ a.Networks = config[i].Networks
         /\ a.Labels = config[i].Labels
         /\ Gone(c)
         /\ \E j \in CallsFor("create", a.Name) : calls[j].ok

\* the containers created in this invocation
CreatedIds == { calls[j].id : j \in { k \in Indexes :
                                        calls[k].op = "create" /\ calls[k].ok } }

\* C15: remove-then-create. For a desired service with a diverged container,
\* a create call is issued only after every observed container of the service
\* was removed with success; after a failed removal of one of them no create
\* call is issued for the service; and in no state of the pass does the
\* runtime hold an observed container of the service together with one
\* created for it in the pass.
C15_RemoveThenCreate ==
    (cmd = "up" /\ Listed) =>
        \A i \in DOMAIN config :
          SomeDiverged(i) =>
            /\ \A j \in CallsFor("create", config[i].Name) :
                 \A c \in ObservedFor(config[i].Name) : RemovedBefore(c, j)
            /\ (\E j \in CallsFor("remove", config[i].Name) : ~calls[j].ok) =>
                 CallsFor("create", config[i].Name) = {}
            /\ ~ \E old \in ObservedFor(config[i].Name), new \in containers :
                   /\ ~Gone(old)
                   /\ new.id \in CreatedIds
                   /\ ServiceOf(new) = config[i].Name

\* of two observed containers of a diverged service the first was removed
\* and the removal of the second failed
C15_Witness ==
    /\ cmd = "up"
    /\ pc = "done"
    /\ \E i \in DOMAIN config :
         /\ SomeDiverged(i)
         /\ \E j, k \in CallsFor("remove", config[i].Name) :
              calls[j].ok /\ ~calls[k].ok

\* the observed containers of service names the configuration does not have
Orphans == { c \in observed0 : ServiceOf(c) \notin DesiredNames }

\* C16: orphans are removed last. A remove call for an orphan is issued only
\* when WithServices has visited every desired service with success, after
\* every call made for a desired service; a pass that ends while a desired
\* service is being processed leaves every orphan in the runtime.
C16_OrphansLast ==
    (cmd = "up" /\ Listed) =>
        /\ \A j \in Indexes :
             (calls[j].op = "remove" /\ calls[j].svc \notin DesiredNames) =>
               /\ idx > Len(config)
               /\ \A k \in Indexes :
                    calls[k].svc \in DesiredNames => (k < j /\ calls[k].ok)
        /\ (pc = "done" /\ idx <= Len(config)) => Orphans \subseteq containers

\* the processing of a desired service failed after a mutation, with an
\* orphan observed
C16_Witness ==
    /\ cmd = "up"
    /\ pc = "done"
    /\ idx <= Len(config)
    /\ Orphans # {}
    /\ \E j \in Indexes : calls[j].op \in {"remove", "create"} /\ calls[j].ok

\* the calls of kind op made on container id
CallsOn(op, id) == { j \in Indexes : calls[j].op = op /\ calls[j].id = id }

\* C17: materialization order. Every connect and start call is made on a
\* container created with success earlier in the pass; the start call comes
\* after a successful connect to each additional network of the service and
\* after no failed one; and a container whose connect or start failed is
\* still in the runtime, not removed, while the pass returns that error.
C17_MaterializationOrder ==
    cmd = "up" =>
        \A id \in { calls[j].id :
                      j \in { k \in Indexes :
                                calls[k].op \in {"connect", "start"} } } :
          /\ \E i \in CallsOn("create", id) :
               /\ calls[i].ok
               /\ \A j \in CallsOn("connect", id) \cup CallsOn("start", id) :
                    i < j
               /\ \A j \in CallsOn("start", id) :
                    /\ \A k \in CallsOn("connect", id) : k < j /\ calls[k].ok
                    /\ Cardinality(CallsOn("connect", id)) =
                         Len(AdditionalNetworks(ServiceNamed(calls[i].svc)))
          /\ Cardinality(CallsOn("start", id)) <= 1
          /\ (\E j \in CallsOn("connect", id) \cup CallsOn("start", id) :
                ~calls[j].ok) =>
               /\ \E x \in containers : x.id = id /\ x.state = "created"
               /\ CallsOn("remove", id) = {}
               /\ pc = "done"
               /\ err \in {"connect", "start"}

\* a container was created and connected to its second network, and its
\* start failed
C17_Witness ==
    /\ cmd = "up"
    /\ err = "start"
    /\ \E j \in Indexes :
         /\ calls[j].op = "connect"
         /\ calls[j].ok
         /\ \E k \in CallsOn("start", calls[j].id) : ~calls[k].ok
         /\ \E x \in containers : x.id = calls[j].id

Resolutions == {"networks", "volumes", "configs", "secrets"}

ContainerOps == {"list", "remove", "create", "connect", "start"}

\* C18: resource errors precede container mutation. In `up`, the containers
\* are listed, removed, created, connected or started only after networks,
\* volumes, configs and secrets were each resolved with success; when one of
\* these resolutions fails the pass is over with that error and has made no
\* call on containers.
C18_ResolveBeforeContainers ==
    cmd = "up" =>
        /\ \A j \in Indexes :
             calls[j].op \in ContainerOps =>
               \A r \in Resolutions :
                 \E i \in Indexes : i < j /\ calls[i].op = r /\ calls[i].ok
        /\ \A i \in Indexes :
             (calls[i].op \in Resolutions /\ ~calls[i].ok) =>
               /\ pc = "done"
               /\ err = calls[i].op
               /\ \A j \in Indexes : calls[j].op \notin ContainerOps

\* the resolution of the secrets failed with containers of the project in
\* the runtime
C18_Witness ==
    /\ cmd = "up"
    /\ pc = "done"
    /\ err = "secrets"
    /\ ProjectContainers(ProjectName) # {}

\* C19: the snapshot bounds the removals. In an `up` pass every remove call
\* is made on a container listed at the start of the pass, no container gets
\* more than one remove call, a container created in the pass gets none, and
\* the entry of a desired service is never handled again as an orphan: in
\* the orphan loop the working map holds no desired name and the list being
\* removed holds no container of a desired service.
C19_SnapshotBoundsRemovals ==
    cmd = "up" =>
        /\ \A j \in Indexes :
             calls[j].op = "remove" =>
               /\ \E c \in observed0 : c.id = calls[j].id
               /\ Cardinality(CallsOn("remove", calls[j].id)) = 1
               /\ calls[j].id \notin CreatedIds
        /\ pc = "orphans" => DOMAIN observedState \cap DesiredNames = {}
        /\ (pc = "remove" /\ ret = "orphans") =>
             \A k \in DOMAIN rmQueue : ServiceOf(rmQueue[k]) \notin DesiredNames

\* a successful pass replaced the container of a desired service and removed
\* an orphan
C19_Witness ==
    /\ UpOk
    /\ \E i, j \in Indexes :
         /\ calls[i].op = "remove" /\ calls[i].svc \in DesiredNames
         /\ calls[j].op = "remove" /\ calls[j].svc \notin DesiredNames
    /\ CreatedIds # {}

\* the observed containers of service `name` that carry no config label
Unlabelled(name) ==
    { c \in ObservedFor(name) : LabelConfig \notin DOMAIN c.labels }

\* C20: a container without fingerprint label is diverged. For a desired
\* service observed with a container that has no config label, a processed
\* service has lost every observed container and got exactly one created
\* with success, the create call coming after all the removals; when `up`
\* returns nil no container of the project is without config label.
C20_UnlabelledIsDiverged ==
    (cmd = "up" /\ Listed) =>
        /\ \A i \in DOMAIN config :
             Unlabelled(config[i].Name) # {} =>
               /\ \A j \in CallsFor("create", config[i].Name) :
                    \A c \in ObservedFor(config[i].Name) : RemovedBefore(c, j)
               /\ Processed(i) =>
                    /\ \A c \in ObservedFor(config[i].Name) : Gone(c)
                    /\ Cardinality(CallsFor("create", config[i].Name)) = 1
                    /\ \A j \in CallsFor("create", config[i].Name) : calls[j].ok
        /\ UpOk => \A c \in ProjectContainers(ProjectName) :
                     LabelConfig \in DOMAIN c.labels

\* a processed service had a container without config label next to one
\* whose label matched
C20_Witness ==
    \E i \in DOMAIN config :
        /\ Processed(i)
        /\ Unlabelled(config[i].Name) # {}
        /\ \E c \in ObservedFor(config[i].Name) :
             Label(c.labels, LabelConfig) = Marshal(config[i])

====
